---- MODULE Spec2Model ----
(***************************************************************************)
(* Model of browser/form.go: the Form type built from a <form> selection,  *)
(* its field store (Field, Input, InputSlice, CheckBox, DeleteField,       *)
(* SetAction) and its submission (Submit, Click, send).                    *)
(***************************************************************************)
EXTENDS Integers, Sequences, FiniteSets, TLC

VARIABLES selection, location, method, action, definedFields, fields,
          buttons, actionSet, last

vars == <<selection, location, method, action, definedFields, fields,
          buttons, actionSet, last>>

\* ------------------------------------------------------------------ bounds

\* Longest value list a caller hands to InputSlice / CheckBox.
MaxVals == 2

\* ------------------------------------------------------- strings and URLs

\* The field names callers pass, and the button names they click; the empty
\* name is that of a control whose name attribute is present and empty.
FieldNames == {"a", "b"}

ButtonNames == {"", "a", "b"}

\* Attribute values of value=..., and the values callers pass.
Values == {"", "x"}

Hosts == {"h1", "h2"}

Paths == {"", "/p"}

\* A parsed *url.URL: host "" is a relative reference.
UrlRefs == [host : Hosts \cup {""}, path : Paths]

AbsUrls == {u \in UrlRefs : u.host # ""}

\* (*url.URL).String()
UrlString(u) == IF u.host = "" THEN u.path ELSE "http://" \o u.host \o u.path

\* A string url.Parse rejects (missing protocol scheme).
BadUrl == ":bad"

\* url.Parse: the URL whose String() is s, or an error.
ParseUrl(s) ==
    IF \E u \in UrlRefs : UrlString(u) = s
    THEN [ok |-> TRUE, url |-> CHOOSE u \in UrlRefs : UrlString(u) = s]
    ELSE [ok |-> FALSE, url |-> [host |-> "", path |-> ""]]

\* Browsable.ResolveUrl: the reference resolved against the current location.
ResolveUrl(loc, u) ==
    IF u.host # "" THEN u
    ELSE [host |-> loc.host, path |-> IF u.path = "" THEN loc.path ELSE u.path]

\* strings.ToUpper on the method strings of the model.
ToUpper(s) ==
    CASE s = "get" -> "GET"
      [] s = "post" -> "POST"
      [] OTHER -> s

\* --------------------------------------------------------------- the DOM

\* goquery's Selection.Attr: (value, present).
Attr(s, k) ==
    IF k \in DOMAIN s.attrs THEN [val |-> s.attrs[k], ok |-> TRUE]
    ELSE [val |-> "", ok |-> FALSE]

\* Selection.Find(tags): the descendants with one of the tags, in document order.
Find(sel, tags) == SelectSeq(sel.children, LAMBDA e : e.tag \in tags)

\* ------------------------------------------------------------ url.Values

NoValues == [n \in {} |-> <<>>]

ValuesGet(m, k) == IF k \in DOMAIN m /\ Len(m[k]) > 0 THEN m[k][1] ELSE ""

ValuesSet(m, k, v) ==
    [n \in DOMAIN m \cup {k} |-> IF n = k THEN <<v>> ELSE m[n]]

ValuesAdd(m, k, v) ==
    [n \in DOMAIN m \cup {k} |->
        IF n = k THEN (IF k \in DOMAIN m THEN Append(m[k], v) ELSE <<v>>)
        ELSE m[n]]

ValuesDel(m, k) == [n \in DOMAIN m \ {k} |-> m[n]]

\* The value list of a name, empty when the name has no entry (a nil slice).
ValuesOf(m, k) == IF k \in DOMAIN m THEN m[k] ELSE <<>>

\* ------------------------------------------------------- form extraction

NoAttrs == [k \in {} |-> ""]

\* An element of the form's subtree: its tag, its attributes, and for a
\* textarea its text, for a select its option elements.
Elem(tag, attrs) == [tag |-> tag, attrs |-> attrs, text |-> "", options |-> <<>>]

ElemSelect(attrs, options) ==
    [tag |-> "select", attrs |-> attrs, text |-> "", options |-> options]

ElemTextarea(attrs, text) ==
    [tag |-> "textarea", attrs |-> attrs, text |-> text, options |-> <<>>]

\* The callback of input.Each: one input or button element.
SerializeInput(acc, s) ==
    LET name == Attr(s, "name")
        typ  == Attr(s, "type")
        val  == Attr(s, "value")
    IN  IF ~name.ok \/ ~typ.ok THEN acc
        ELSE IF typ.val = "submit"
        THEN [acc EXCEPT !.buttons =
                 ValuesAdd(@, name.val, IF val.ok THEN val.val ELSE "")]
        ELSE IF typ.val = "radio" \/ typ.val = "checkbox"
        THEN [acc EXCEPT !.definedFields = @ \cup {name.val},
                         !.fields = IF Attr(s, "checked").ok /\ val.ok
                                    THEN ValuesAdd(@, name.val, val.val) ELSE @]
        ELSE [acc EXCEPT !.definedFields = @ \cup {name.val},
                         !.fields = IF val.ok
                                    THEN ValuesAdd(@, name.val, val.val) ELSE @]

\* s.Find("option[selected]").Each: the selected options' values are added.
RECURSIVE SerializeOptions(_, _, _)
SerializeOptions(flds, name, opts) ==
    IF opts = <<>> THEN flds
    ELSE LET so == Head(opts)
             val == Attr(so, "value")
         IN  SerializeOptions(
                 IF Attr(so, "selected").ok /\ val.ok
                 THEN ValuesAdd(flds, name, val.val) ELSE flds,
                 name, Tail(opts))

\* The callback of selec.Each: one select element.
SerializeSelect(acc, s) ==
    LET name == Attr(s, "name")
    IN  IF ~name.ok THEN acc
        ELSE [acc EXCEPT !.definedFields = @ \cup {name.val},
                         !.fields = SerializeOptions(@, name.val, s.options)]

\* The callback of textarea.Each: one textarea element.
SerializeTextarea(acc, s) ==
    LET name == Attr(s, "name")
    IN  IF ~name.ok THEN acc
        ELSE [acc EXCEPT !.definedFields = @ \cup {name.val},
                         !.fields = ValuesAdd(@, name.val, s.text)]

\* input.Each over the input and button elements, in document order.
RECURSIVE EachInput(_, _)
EachInput(els, acc) ==
    IF els = <<>> THEN acc
    ELSE EachInput(Tail(els), SerializeInput(acc, Head(els)))

\* selec.Each over the select elements, in document order.
RECURSIVE EachSelect(_, _)
EachSelect(els, acc) ==
    IF els = <<>> THEN acc
    ELSE EachSelect(Tail(els), SerializeSelect(acc, Head(els)))

\* textarea.Each over the textarea elements, in document order.
RECURSIVE EachTextarea(_, _)
EachTextarea(els, acc) ==
    IF els = <<>> THEN acc
    ELSE EachTextarea(Tail(els), SerializeTextarea(acc, Head(els)))

\* serializeForm: the defined fields, the field values and the button values.
serializeForm(sel) ==
    LET a0 == [definedFields |-> {}, fields |-> NoValues, buttons |-> NoValues]
        a1 == EachInput(Find(sel, {"input", "button"}), a0)
        a2 == EachSelect(Find(sel, {"select"}), a1)
    IN  EachTextarea(Find(sel, {"textarea"}), a2)

\* formAttributes: the method and the action recorded at construction.
formAttributes(loc, s) ==
    LET m    == Attr(s, "method")
        a    == Attr(s, "action")
        aurl == ParseUrl(IF a.ok THEN a.val ELSE UrlString(loc))
    IN  IF ~aurl.ok THEN [method |-> "", action |-> ""]
        ELSE [method |-> ToUpper(IF m.ok THEN m.val ELSE "GET"),
              action |-> UrlString(ResolveUrl(loc, aurl.url))]

\* ----------------------------------------------------- the forms explored

\* The children of the <form> elements the model is built from.
DocField ==
    << Elem("input", [name |-> "a", type |-> "text", value |-> "x"]),
       ElemSelect([name |-> "a"], << Elem("option", [value |-> "y"]) >>),
       ElemTextarea([name |-> "a"], "") >>

DocButtons ==
    << Elem("input", [name |-> "a", type |-> "text"]),
       Elem("input", [name |-> "b", type |-> "submit", value |-> "x"]),
       Elem("input", [name |-> "b", type |-> "submit", value |-> "y"]) >>

DocShared ==
    << ElemSelect([name |-> "a"],
                  << Elem("option", [value |-> "x", selected |-> "selected"]),
                     [Elem("option", [selected |-> ""]) EXCEPT !.text = "y"] >>),
       Elem("input", [name |-> "a", type |-> "submit", value |-> "y"]),
       Elem("button", [name |-> "b", type |-> "submit"]) >>

DocUnnamed ==
    << Elem("input", [name |-> "", type |-> "submit", value |-> "x"]),
       Elem("input", [name |-> "a", type |-> "text", value |-> ""]) >>

DocKinds ==
    << Elem("input", [name |-> "a", type |-> "checkbox", value |-> "x",
                      checked |-> "checked"]),
       Elem("input", [name |-> "a", type |-> "checkbox", value |-> "y"]),
       Elem("input", [name |-> "a", type |-> "checkbox", value |-> "",
                      checked |-> ""]),
       ElemTextarea([name |-> "b"], "y"),
       ElemSelect([name |-> "b"],
                  << Elem("option", [value |-> "x", selected |-> ""]),
                     Elem("option", [value |-> "y"]) >>),
       Elem("input", [type |-> "submit", value |-> "x"]) >>

DocUntyped ==
    << Elem("input", [name |-> "a"]),
       Elem("button", [name |-> "b", value |-> "x"]),
       Elem("input", [name |-> "b", type |-> "radio", value |-> "x"]),
       Elem("input", [name |-> "b", type |-> "submit", value |-> "y"]) >>

Docs == {<<>>, DocField, DocButtons, DocShared, DocUnnamed, DocKinds, DocUntyped}

MethodAttrs == {"get", "post", ""}

ActionStrings == {"", "/p", "http://h2/p", BadUrl}

EnctypeAttrs == {"multipart/form-data", "application/x-www-form-urlencoded"}

\* Attribute sets of a <form> element: method and enctype each absent or
\* with one of the values above, and the action absent or with one of them.
DispatchAttrs ==
    { f \in UNION { [d -> MethodAttrs \cup EnctypeAttrs] :
                    d \in SUBSET {"method", "enctype"} } :
        /\ "method" \in DOMAIN f => f["method"] \in MethodAttrs
        /\ "enctype" \in DOMAIN f => f["enctype"] \in EnctypeAttrs }

ActionAttrs ==
    {[method |-> "get"]}
        \cup {[method |-> "get", action |-> a] : a \in ActionStrings}

\* The <form> elements of Spec: every document, under the attributes of
\* the tests' forms.
Forms == [attrs : {[method |-> "post", action |-> "/p"]}, children : Docs]

\* The <form> elements of SpecAttrs: every attribute set, over one document.
AttrForms == [attrs : DispatchAttrs \cup ActionAttrs, children : {DocButtons}]

\* The location of the session when the form is looked up, and the one a
\* redirected response leaves it at.
StartUrl == [host |-> "h1", path |-> ""]

RedirectUrl == [host |-> "h2", path |-> "/p"]

\* ------------------------------------------------------------- the state

\* selection      the <form> element: its attributes and its children
\* location       Browsable.Url(), the session's current location
\* method, action, definedFields, fields, buttons   the fields of Form
\* actionSet      the argument of the latest SetAction call, <<>> before any
\* last           the latest call on the Form: its name and arguments, the
\*                error and the value it returned, and the calls it made on
\*                the session
Errors == {"nil", "ElementNotFound", "InvalidFormValue", "ParseError",
           "TransportError"}

NoRet == [value |-> "", found |-> FALSE]

Call(op, name, values, err, ret, calls) ==
    [op |-> op, name |-> name, values |-> values, err |-> err, ret |-> ret,
     calls |-> calls]

\* NewForm, for a <form> element of the set forms.
NewForm(forms) ==
    /\ selection \in forms
    /\ location = StartUrl
    /\ LET sf == serializeForm(selection)
           fa == formAttributes(location, selection)
       IN  /\ method = fa.method
           /\ action = fa.action
           /\ definedFields = sf.definedFields
           /\ fields = sf.fields
           /\ buttons = sf.buttons
    /\ actionSet = <<>>
    /\ last = Call("NewForm", "", <<>>, "nil", NoRet, <<>>)

Init == NewForm(Forms)

InitAttrs == NewForm(AttrForms)

\* The value lists callers pass to InputSlice and CheckBox.
RECURSIVE SeqsUpTo(_)
SeqsUpTo(n) ==
    IF n = 0 THEN {<<>>}
    ELSE LET shorter == SeqsUpTo(n - 1)
         IN  shorter \cup {Append(q, v) : q \in shorter, v \in Values}

ValueLists == SeqsUpTo(MaxVals)

\* ------------------------------------------------------------ operations

\* Form.Field
FieldResult(name) ==
    IF name \in definedFields
    THEN [value |-> ValuesGet(fields, name), found |-> TRUE]
    ELSE [value |-> "", found |-> FALSE]

Field(name) ==
    /\ last' = Call("Field", name, <<>>, "nil", FieldResult(name), <<>>)
    /\ UNCHANGED <<selection, location, method, action, definedFields, fields,
                   buttons, actionSet>>

\* Form.Method
MethodResult == method

\* Form.Action
ActionResult == action

\* Form.SetAction
SetAction(aurl) ==
    /\ action' = aurl
    /\ actionSet' = <<aurl>>
    /\ last' = Call("SetAction", "", <<aurl>>, "nil", NoRet, <<>>)
    /\ UNCHANGED <<selection, location, method, definedFields, fields, buttons>>

\* Input without the definedFields test.
InputResultUnchecked(name, value) ==
    [fields |-> ValuesSet(fields, name, value), err |-> "nil"]

\* Form.Input: the fields and the error it leaves.
InputResult(name, value) ==
    IF name \in definedFields
    THEN [fields |-> ValuesSet(fields, name, value), err |-> "nil"]
    ELSE [fields |-> fields, err |-> "ElementNotFound"]

Input(name, value) ==
    LET r == InputResult(name, value)
    IN  /\ fields' = r.fields
        /\ last' = Call("Input", name, <<value>>, r.err, NoRet, <<>>)
        /\ UNCHANGED <<selection, location, method, action, definedFields,
                       buttons, actionSet>>

\* DeleteField that blanks the value where it should remove the entry.
DeleteFieldResultBlank(name) ==
    IF name \in definedFields
    THEN [fields |-> ValuesSet(fields, name, ""), err |-> "nil"]
    ELSE [fields |-> fields, err |-> "ElementNotFound"]

\* Form.DeleteField: the fields and the error it leaves.
DeleteFieldResult(name) ==
    IF name \in definedFields
    THEN [fields |-> ValuesDel(fields, name), err |-> "nil"]
    ELSE [fields |-> fields, err |-> "ElementNotFound"]

DeleteField(name) ==
    LET r == DeleteFieldResult(name)
    IN  /\ fields' = r.fields
        /\ last' = Call("DeleteField", name, <<>>, r.err, NoRet, <<>>)
        /\ UNCHANGED <<selection, location, method, action, definedFields,
                       buttons, actionSet>>

\* The loop of InputSlice: f.fields.Add(name, v) for each v of values.
RECURSIVE AddAll(_, _, _)
AddAll(m, name, values) ==
    IF values = <<>> THEN m
    ELSE AddAll(ValuesAdd(m, name, Head(values)), name, Tail(values))

\* InputSlice without the f.fields.Del(name) before the loop.
InputSliceResultKeepsOld(name, values) ==
    IF name \in definedFields
    THEN [fields |-> AddAll(fields, name, values), err |-> "nil"]
    ELSE [fields |-> fields, err |-> "ElementNotFound"]

\* Form.InputSlice: the fields and the error it leaves.
InputSliceResult(name, values) ==
    IF name \in definedFields
    THEN [fields |-> AddAll(ValuesDel(fields, name), name, values),
          err |-> "nil"]
    ELSE [fields |-> fields, err |-> "ElementNotFound"]

InputSlice(name, values) ==
    LET r == InputSliceResult(name, values)
    IN  /\ fields' = r.fields
        /\ last' = Call("InputSlice", name, values, r.err, NoRet, <<>>)
        /\ UNCHANGED <<selection, location, method, action, definedFields,
                       buttons, actionSet>>

\* Form.CheckBox: InputSlice under another name.
CheckBox(name, values) ==
    LET r == InputSliceResult(name, values)
    IN  /\ fields' = r.fields
        /\ last' = Call("CheckBox", name, values, r.err, NoRet, <<>>)
        /\ UNCHANGED <<selection, location, method, action, definedFields,
                       buttons, actionSet>>

\* ------------------------------------------------------------ submission

\* send that tests the enctype before the method.
sendOperationEnctypeFirst ==
    LET m       == Attr(selection, "method")
        enctype == Attr(selection, "enctype")
    IN  IF enctype.val = "multipart/form-data" THEN "PostMultipart"
        ELSE IF ToUpper(IF m.ok THEN m.val ELSE "GET") = "GET" THEN "OpenForm"
        ELSE "PostForm"

\* send without the enctype test: every POST is url-encoded.
sendOperationNoMultipart ==
    LET m == Attr(selection, "method")
    IN  IF ToUpper(IF m.ok THEN m.val ELSE "GET") = "GET" THEN "OpenForm"
        ELSE "PostForm"

\* send, lines 144-147 and 169-176: the session operation the form's own
\* attributes select.
sendOperation ==
    LET m       == Attr(selection, "method")
        enctype == Attr(selection, "enctype")
    IN  IF ToUpper(IF m.ok THEN m.val ELSE "GET") = "GET" THEN "OpenForm"
        ELSE IF enctype.val = "multipart/form-data" THEN "PostMultipart"
        ELSE "PostForm"

\* send that reads the action from the <form> element and never from f.action.
sendActionFromAttr ==
    LET a == Attr(selection, "action")
    IN  IF a.ok THEN a.val ELSE UrlString(location)

\* send, lines 148-154: the action string that is parsed.
sendAction ==
    IF action = ""
    THEN LET a == Attr(selection, "action")
         IN  IF a.ok THEN a.val ELSE UrlString(location)
    ELSE action

\* send, lines 161-167: the values handed to the session.
sendValues(buttonName, buttonValue) ==
    IF buttonName # "" THEN ValuesSet(fields, buttonName, buttonValue)
    ELSE fields

\* The results a session operation may return, and the locations its
\* response may leave the session at (the transport follows redirects).
Results == {"nil", "TransportError"}

\* send that reports success whatever the session operation returned.
sendDropsError(op, name, buttonName, buttonValue, res, resp) ==
    LET aurl == ParseUrl(sendAction)
    IN  IF ~aurl.ok
        THEN /\ last' = Call(op, name, <<>>, "ParseError", NoRet, <<>>)
             /\ location' = location
        ELSE /\ last' = Call(op, name, <<>>, "nil", NoRet,
                   << [op     |-> sendOperation,
                       url    |-> UrlString(ResolveUrl(location, aurl.url)),
                       values |-> sendValues(buttonName, buttonValue),
                       result |-> res] >>)
             /\ location' = IF res = "nil" THEN resp ELSE location

\* Form.send, called on behalf of op(name): res and resp are the session's
\* answer to the one call send makes.
send(op, name, buttonName, buttonValue, res, resp) ==
    LET aurl == ParseUrl(sendAction)
    IN  IF ~aurl.ok
        THEN /\ last' = Call(op, name, <<>>, "ParseError", NoRet, <<>>)
             /\ location' = location
        ELSE /\ last' = Call(op, name, <<>>, res, NoRet,
                   << [op     |-> sendOperation,
                       url    |-> UrlString(ResolveUrl(location, aurl.url)),
                       values |-> sendValues(buttonName, buttonValue),
                       result |-> res] >>)
             /\ location' = IF res = "nil" THEN resp ELSE location

\* Click without the test that the button is one of f.buttons.
clickUnchecked(op, name, button, res, resp) ==
    send(op, name, button, ValuesGet(buttons, button), res, resp)

\* Click that sends the button's last recorded value.
clickLastValue(op, name, button, res, resp) ==
    IF button \notin DOMAIN buttons
    THEN /\ last' = Call(op, name, <<>>, "InvalidFormValue", NoRet, <<>>)
         /\ location' = location
    ELSE send(op, name, button, buttons[button][Len(buttons[button])], res,
              resp)

\* Form.Click, also as Submit calls it (op is the call made on the Form).
click(op, name, button, res, resp) ==
    IF button \notin DOMAIN buttons
    THEN /\ last' = Call(op, name, <<>>, "InvalidFormValue", NoRet, <<>>)
         /\ location' = location
    ELSE send(op, name, button, buttons[button][1], res, resp)

\* Click that also stores the clicked button's pair in the fields.
ClickStoresButton(button) ==
    /\ \E res \in Results, resp \in {StartUrl, RedirectUrl} :
           click("Click", button, button, res, resp)
    /\ fields' = IF button \in DOMAIN buttons
                 THEN sendValues(button, buttons[button][1]) ELSE fields
    /\ UNCHANGED <<selection, method, action, definedFields, buttons,
                   actionSet>>

Click(button) ==
    /\ \E res \in Results, resp \in {StartUrl, RedirectUrl} :
           click("Click", button, button, res, resp)
    /\ UNCHANGED <<selection, method, action, definedFields, fields, buttons,
                   actionSet>>

\* Submit that never clicks a button.
SubmitWithoutButton ==
    /\ \E res \in Results, resp \in {StartUrl, RedirectUrl} :
           send("Submit", "", "", "", res, resp)
    /\ UNCHANGED <<selection, method, action, definedFields, fields, buttons,
                   actionSet>>

\* Form.Submit: ranging over the map f.buttons yields its keys in no
\* particular order, and the first key yielded is clicked.
Submit ==
    /\ \E res \in Results, resp \in {StartUrl, RedirectUrl} :
           IF Cardinality(DOMAIN buttons) > 0
           THEN \E name \in DOMAIN buttons : click("Submit", "", name, res, resp)
           ELSE send("Submit", "", "", "", res, resp)
    /\ UNCHANGED <<selection, method, action, definedFields, fields, buttons,
                   actionSet>>

Next ==
    \/ \E name \in FieldNames : Field(name)
    \/ \E aurl \in ActionStrings : SetAction(aurl)
    \/ \E name \in FieldNames, value \in Values : Input(name, value)
    \/ \E name \in FieldNames : DeleteField(name)
    \/ \E name \in FieldNames, values \in ValueLists : InputSlice(name, values)
    \/ \E name \in FieldNames, values \in ValueLists : CheckBox(name, values)
    \/ \E button \in ButtonNames : Click(button)
    \/ Submit

Spec == Init /\ [][Next]_vars

\* The same operations on the forms that vary the <form> attributes.
SpecAttrs == InitAttrs /\ [][Next]_vars

\* ================================================================ claims

\* The entries of every name other than name are the same in m2 as in m1.
OthersUnchanged(m1, m2, name) ==
    \A n \in (DOMAIN m1 \cup DOMAIN m2) \ {name} :
        /\ n \in DOMAIN m1
        /\ n \in DOMAIN m2
        /\ m1[n] = m2[n]

MutatorOps == {"Input", "InputSlice", "CheckBox", "DeleteField"}

\* C1: in every state, after construction and after any sequence of calls,
\* every name with an entry in fields is a member of definedFields.
C1_FieldSetWithinDefined == DOMAIN fields \subseteq definedFields

\* C1 witness: DeleteField was refused for a name that is not defined, on a
\* form whose fields hold values.
C1_Witness ==
    /\ last.op = "DeleteField"
    /\ last.err = "ElementNotFound"
    /\ DOMAIN fields # {}
    /\ \E n \in FieldNames : n \notin definedFields

\* C2: on a defined name, Input leaves exactly <<value>>, InputSlice and
\* CheckBox leave exactly the caller's list in the caller's order, the other
\* names keep their entries, and a Field call made next returns the first
\* element of the new list (the empty string for an empty list) and true.
C2_Step ==
    /\ (last'.op \in {"Input", "InputSlice", "CheckBox"}
            /\ last'.name \in definedFields)
        => /\ last'.err = "nil"
           /\ ValuesOf(fields', last'.name) = last'.values
           /\ OthersUnchanged(fields, fields', last'.name)
    /\ (last'.op = "Input" /\ last'.name \in definedFields)
        => /\ last'.name \in DOMAIN fields'
           /\ Len(fields'[last'.name]) = 1
    /\ (last.op \in {"Input", "InputSlice", "CheckBox"} /\ last.err = "nil"
            /\ last'.op = "Field" /\ last'.name = last.name)
        => last'.ret =
              [value |-> IF last.values = <<>> THEN "" ELSE last.values[1],
               found |-> TRUE]

C2_InputReplacesValues == [][C2_Step]_vars

\* C2 witness: a name's values were replaced by the caller's list <<"", "x">>
\* (no form starts with it) while another name holds values, and Field then
\* returned the first of them.
C2_Witness ==
    /\ last.op = "Field"
    /\ last.ret = [value |-> "", found |-> TRUE]
    /\ ValuesOf(fields, last.name) = <<"", "x">>
    /\ \E n \in DOMAIN fields : n # last.name

\* C3: no call removes a name from definedFields; DeleteField on a defined
\* name removes the name's values and nothing else; a Field call made next
\* returns ("", true) and an Input call made next succeeds.
C3_Step ==
    /\ definedFields' = definedFields
    /\ (last'.op = "DeleteField" /\ last'.name \in definedFields)
        => /\ last'.err = "nil"
           /\ last'.name \notin DOMAIN fields'
           /\ OthersUnchanged(fields, fields', last'.name)
    /\ (last.op = "DeleteField" /\ last.err = "nil" /\ last'.name = last.name)
        => /\ last'.op = "Field" => last'.ret = [value |-> "", found |-> TRUE]
           /\ last'.op = "Input"
                => (last'.err = "nil" /\ fields'[last.name] = last'.values)

C3_DeleteKeepsDefined == [][C3_Step]_vars

\* C3 witness: DeleteField succeeded: the name holds no values, is still
\* defined, and another name keeps its values.
C3_Witness ==
    /\ last.op = "DeleteField"
    /\ last.err = "nil"
    /\ last.name \in definedFields
    /\ last.name \notin DOMAIN fields
    /\ DOMAIN fields # {}

\* C4: a mutator called with a name outside definedFields, and Click called
\* with a name outside buttons, return an error and change none of fields,
\* definedFields, buttons, action and method; the failing Click makes no call
\* on the session.
C4_Step ==
    /\ (last'.op \in MutatorOps /\ last'.name \notin definedFields)
        => /\ last'.err = "ElementNotFound"
           /\ last'.calls = <<>>
           /\ UNCHANGED <<fields, definedFields, buttons, action, method,
                          location>>
    /\ (last'.op = "Click" /\ last'.name \notin DOMAIN buttons)
        => /\ last'.err = "InvalidFormValue"
           /\ last'.calls = <<>>
           /\ UNCHANGED <<fields, definedFields, buttons, action, method,
                          location>>

C4_UnknownNameChangesNothing == [][C4_Step]_vars

\* C4 witness: Click on a name that is no button was refused on a form that
\* has buttons and field values.
C4_Witness ==
    /\ last.op = "Click"
    /\ last.err = "InvalidFormValue"
    /\ DOMAIN buttons # {}
    /\ DOMAIN fields # {}

\* The latest call was a Click or Submit that reached the session.
Dispatched ==
    /\ last.op \in {"Click", "Submit"}
    /\ last.err \notin {"InvalidFormValue", "ParseError"}

\* The operation the <form>'s attributes call for: OpenForm when the method
\* is absent or GET in upper case, else PostMultipart for the multipart
\* enctype, else PostForm.
ClaimedOperation ==
    LET attrs == selection.attrs
    IN  IF "method" \notin DOMAIN attrs \/ ToUpper(attrs["method"]) = "GET"
        THEN "OpenForm"
        ELSE IF "enctype" \in DOMAIN attrs
                  /\ attrs["enctype"] = "multipart/form-data"
        THEN "PostMultipart"
        ELSE "PostForm"

\* C5: a Click or Submit that reaches dispatch makes exactly one call on the
\* session, the one its method and enctype attributes select, whatever the
\* fields hold; a call that does not reach dispatch makes none.
C5_DispatchByAttributes ==
    /\ Dispatched
        => /\ Len(last.calls) = 1
           /\ last.calls[1].op = ClaimedOperation
    /\ ~Dispatched => last.calls = <<>>

\* C5 witness: a multipart POST was dispatched for a form whose fields were
\* set by the caller.
C5_Witness ==
    /\ Dispatched
    /\ last.calls[1].op = "PostMultipart"
    /\ ValuesOf(fields, "a") = <<"x", "">>

MultipartForm ==
    /\ "enctype" \in DOMAIN selection.attrs
    /\ selection.attrs["enctype"] = "multipart/form-data"

\* C6 as claimed: a form with the multipart enctype dispatches every Click
\* and Submit as PostMultipart.
C6_MultipartAlways ==
    (MultipartForm /\ Dispatched) => last.calls[1].op = "PostMultipart"

\* C6 as amended: a form with the multipart enctype dispatches as
\* PostMultipart when its method attribute is present and is not GET in
\* upper case, and as OpenForm when the method is absent or GET, whatever the
\* fields hold.
C6_MultipartWhenPost ==
    (MultipartForm /\ Dispatched)
        => last.calls[1].op =
              (IF "method" \in DOMAIN selection.attrs
                    /\ ToUpper(selection.attrs["method"]) # "GET"
               THEN "PostMultipart" ELSE "OpenForm")

\* C6 witness: a multipart form with method post was dispatched after the
\* caller gave a field two values.
C6_Witness ==
    /\ MultipartForm
    /\ Dispatched
    /\ "method" \in DOMAIN selection.attrs
    /\ selection.attrs["method"] = "post"
    /\ ValuesOf(fields, "a") = <<"", "x">>

\* The dispatched values are the fields with the one value v under name b,
\* every other name as it is in fields.
CarriesButton(values, b, v) ==
    /\ b \in DOMAIN values
    /\ values[b] = <<v>>
    /\ OthersUnchanged(fields, values, b)

\* C7 as claimed: Click(b) for a button b dispatches values that hold b with
\* the one value recorded first for b, and nothing of any other button.
C7_ClickCarriesButton ==
    (last.op = "Click" /\ Dispatched)
        => CarriesButton(last.calls[1].values, last.name,
                         buttons[last.name][1])

\* C7 as amended: the same for every button whose name is not empty; Click
\* on a button whose name is empty dispatches the fields alone.
C7_ClickCarriesNamedButton ==
    (last.op = "Click" /\ Dispatched)
        => IF last.name = "" THEN last.calls[1].values = fields
           ELSE CarriesButton(last.calls[1].values, last.name,
                              buttons[last.name][1])

\* C7 witness: a button recorded twice with different values was clicked.
C7_Witness ==
    /\ last.op = "Click"
    /\ Dispatched
    /\ last.name \in DOMAIN buttons
    /\ Len(buttons[last.name]) = 2
    /\ buttons[last.name][1] # buttons[last.name][2]
    /\ DOMAIN fields # {}

\* C8 as claimed: Submit with no buttons dispatches the fields; Submit with
\* buttons dispatches them with some button's name and first value.
C8_SubmitCarriesButton ==
    (last.op = "Submit" /\ Dispatched)
        => IF DOMAIN buttons = {} THEN last.calls[1].values = fields
           ELSE \E b \in DOMAIN buttons :
                    CarriesButton(last.calls[1].values, b, buttons[b][1])

\* C8 as amended: Submit with buttons dispatches what Click(b) dispatches
\* for some button b: the fields with b's name and first value when the name
\* is not empty, the fields alone when it is.
C8_SubmitAsSomeClick ==
    (last.op = "Submit" /\ Dispatched)
        => IF DOMAIN buttons = {} THEN last.calls[1].values = fields
           ELSE \E b \in DOMAIN buttons :
                    IF b = "" THEN last.calls[1].values = fields
                    ELSE CarriesButton(last.calls[1].values, b, buttons[b][1])

\* C8 witness: Submit on a form with a button dispatched the button's name
\* beside a field's values.
C8_Witness ==
    /\ last.op = "Submit"
    /\ Dispatched
    /\ "b" \in DOMAIN last.calls[1].values
    /\ "b" \notin DOMAIN fields
    /\ DOMAIN fields # {}

\* The submit controls of the form, in document order.
SubmitControls ==
    SelectSeq(Find(selection, {"input", "button"}),
              LAMBDA e : /\ Attr(e, "name").ok
                         /\ Attr(e, "type").ok
                         /\ Attr(e, "type").val = "submit")

\* C9 as claimed: Submit on a form with submit buttons dispatches the name
\* and value of the first of them in document order.
C9_SubmitClicksFirstButton ==
    (last.op = "Submit" /\ Dispatched /\ SubmitControls # <<>>)
        => LET first == Head(SubmitControls)
               b     == Attr(first, "name").val
           IN  \/ b = ""
               \/ CarriesButton(last.calls[1].values, b,
                                Attr(first, "value").val)

\* The <form>'s action attribute when present, else the session's location.
AttrOrLocation ==
    IF "action" \in DOMAIN selection.attrs THEN selection.attrs["action"]
    ELSE UrlString(location)

\* The string resolved against the session's location, as a string.
Resolved(s) == UrlString(ResolveUrl(location, ParseUrl(s).url))

\* The action recorded at construction: the action attribute, or the
\* session's location at that time, resolved against that location; empty
\* when it does not parse.
ConstructedAction ==
    LET a == IF "action" \in DOMAIN selection.attrs
             THEN selection.attrs["action"] ELSE UrlString(StartUrl)
    IN  IF ParseUrl(a).ok
        THEN UrlString(ResolveUrl(StartUrl, ParseUrl(a).url)) ELSE ""

\* C10 as claimed: the URL of a dispatch is the latest SetAction value when
\* one was set and is not empty, else the action attribute, else the
\* session's location, resolved against the session's location at the call.
C10_ClaimedStep ==
    (last'.op \in {"Click", "Submit"} /\ last'.calls # <<>>)
        => last'.calls[1].url =
              Resolved(IF actionSet # <<>> /\ actionSet[1] # ""
                       THEN actionSet[1] ELSE AttrOrLocation)

C10_TargetFromAttribute == [][C10_ClaimedStep]_vars

\* C10 as amended: the URL of a dispatch is the latest SetAction value when
\* one was set and is not empty; with no SetAction call, the action recorded
\* at construction when that is not empty; otherwise the action attribute,
\* else the session's location; in each case resolved against the session's
\* location at the call.
C10_AmendedStep ==
    (last'.op \in {"Click", "Submit"} /\ last'.calls # <<>>)
        => last'.calls[1].url =
              Resolved(IF actionSet # <<>> /\ actionSet[1] # ""
                       THEN actionSet[1]
                       ELSE IF actionSet = <<>> /\ ConstructedAction # ""
                       THEN ConstructedAction
                       ELSE AttrOrLocation)

C10_TargetFromFormAction == [][C10_AmendedStep]_vars

\* C10 witness: after a redirect moved the session to the other host, a
\* relative SetAction value was dispatched resolved against that host.
C10_Witness ==
    /\ Dispatched
    /\ actionSet = <<"/p">>
    /\ "action" \notin DOMAIN selection.attrs
    /\ last.calls[1].url = "http://h2/p"

\* C11 as claimed: in every state, after construction and after any calls,
\* the value Action() returns is an absolute URL.
C11_ActionAbsolute == \E u \in AbsUrls : UrlString(u) = ActionResult

\* C20 as claimed: in every state Method() returns the <form>'s method
\* attribute in upper case, GET when the attribute is absent, whatever the
\* action attribute is.
C20_MethodFromAttribute ==
    MethodResult =
        (IF "method" \in DOMAIN selection.attrs
         THEN ToUpper(selection.attrs["method"]) ELSE "GET")

\* The elements of the form's subtree, as a set.
Elements == {selection.children[i] : i \in DOMAIN selection.children}

\* The names the claim C12 counts as defined: those of the inputs and
\* buttons whose type is not "submit", of the selects and of the textareas.
ClaimedDefinedFields ==
    { Attr(e, "name").val :
        e \in { d \in Elements :
                  /\ Attr(d, "name").ok
                  /\ \/ d.tag \in {"select", "textarea"}
                     \/ /\ d.tag \in {"input", "button"}
                        /\ Attr(d, "type") # [val |-> "submit", ok |-> TRUE] } }

\* C12 as claimed: the defined fields are exactly the names of the inputs
\* and buttons whose type is not "submit", of the selects and of the
\* textareas; every name of a submit control is a button, and a name that
\* only submit controls carry is not a defined field.
C12_DefinedByElements ==
    /\ definedFields = ClaimedDefinedFields
    /\ \A i \in DOMAIN SubmitControls :
           Attr(SubmitControls[i], "name").val \in DOMAIN buttons

\* The values one element contributes to each name: the callback of its
\* kind applied to that element alone.
ElementFields(e) ==
    LET a0 == [definedFields |-> {}, fields |-> NoValues, buttons |-> NoValues]
    IN  IF e.tag \in {"input", "button"} THEN SerializeInput(a0, e).fields
        ELSE IF e.tag = "select" THEN SerializeSelect(a0, e).fields
        ELSE IF e.tag = "textarea" THEN SerializeTextarea(a0, e).fields
        ELSE NoValues

\* The values the elements els contribute to name, element after element.
RECURSIVE InDocumentOrder(_, _)
InDocumentOrder(els, name) ==
    IF els = <<>> THEN <<>>
    ELSE ValuesOf(ElementFields(Head(els)), name)
             \o InDocumentOrder(Tail(els), name)

\* C15 as claimed: after extraction the value list of every name holds the
\* values its elements contribute in the document order of those elements,
\* whatever the kinds of the elements that carry the name.
C15_DocumentOrder ==
    last.op = "NewForm"
        => \A n \in definedFields :
               ValuesOf(fields, n) = InDocumentOrder(selection.children, n)

\* The list vals with the value v put in at some position.
WithValue(vals, v) ==
    { SubSeq(vals, 1, i) \o <<v>> \o SubSeq(vals, i + 1, Len(vals)) :
        i \in 0..Len(vals) }

\* C17 as claimed: the values a Click dispatches hold every entry of the
\* current fields, each name with all of its values in order; a field named
\* like the clicked button keeps its values next to the button's first value.
C17_ClickKeepsFields ==
    (last.op = "Click" /\ Dispatched)
        => LET values == last.calls[1].values
           IN  \A n \in DOMAIN fields :
                   /\ n \in DOMAIN values
                   /\ IF n = last.name
                      THEN values[n] \in WithValue(fields[n], buttons[n][1])
                      ELSE values[n] = fields[n]

\* The radio and checkbox inputs that carry the name n, in document order.
Group(n) ==
    SelectSeq(Find(selection, {"input"}),
              LAMBDA e : /\ Attr(e, "name") = [val |-> n, ok |-> TRUE]
                         /\ Attr(e, "type").ok
                         /\ Attr(e, "type").val \in {"radio", "checkbox"})

\* The names of the radio and checkbox groups of the form.
GroupNames == {n \in FieldNames : Group(n) # <<>>}

\* The value attributes of the checked elements of the group n, in
\* document order.
CheckedValues(n) ==
    LET checked == SelectSeq(Group(n), LAMBDA e : /\ Attr(e, "checked").ok
                                                  /\ Attr(e, "value").ok)
    IN  [i \in 1..Len(checked) |-> Attr(checked[i], "value").val]

\* C13, one step: after construction every group holds the values of its
\* checked elements, and a submission that follows a successful
\* CheckBox(name, values) on a group carries exactly values for name.
C13_ClaimedStep ==
    /\ last.op = "NewForm"
           => \A n \in GroupNames : ValuesOf(fields, n) = CheckedValues(n)
    /\ ( /\ last.op = "CheckBox"
         /\ last.err = "nil"
         /\ last.name \in GroupNames
         /\ Dispatched' )
           => ValuesOf(last'.calls[1].values, last.name) = last.values

\* C13 as claimed: the initial values of a radio or checkbox group are the
\* value attributes of its checked elements in document order, and after
\* CheckBox(name, values) the next submission carries exactly values for
\* that name.
C13_CheckedThenSubmitted == [][C13_ClaimedStep]_vars

\* The ways of merging two lists that keep the order within each.
RECURSIVE Merges(_, _)
Merges(s, t) ==
    IF s = <<>> THEN {t}
    ELSE IF t = <<>> THEN {s}
    ELSE {<<Head(s)>> \o m : m \in Merges(Tail(s), t)}
             \cup {<<Head(t)>> \o m : m \in Merges(s, Tail(t))}

\* The value of an option: its value attribute, else its text.
OptionValue(o) == IF Attr(o, "value").ok THEN Attr(o, "value").val ELSE o.text

\* The values of the options of s that carry a selected attribute.
SelectedValues(s) ==
    LET sel == SelectSeq(s.options, LAMBDA o : Attr(o, "selected").ok)
    IN  [i \in 1..Len(sel) |-> OptionValue(sel[i])]

\* The values claimed for the elements els, all of them selects or
\* textareas, under the name n: the selected values of each select and the
\* text of each textarea.
RECURSIVE ClaimedValues(_, _)
ClaimedValues(els, n) ==
    IF els = <<>> THEN <<>>
    ELSE LET e == Head(els)
         IN  (IF Attr(e, "name") # [val |-> n, ok |-> TRUE] THEN <<>>
              ELSE IF e.tag = "select" THEN SelectedValues(e)
              ELSE <<e.text>>)
                 \o ClaimedValues(Tail(els), n)

\* C14, one step: after construction the values of a name are those of its
\* inputs, of the selected options of its selects and of the texts of its
\* textareas, each list in document order; and a submission made before any
\* mutation carries these values for every defined field.
C14_ClaimedStep ==
    last.op = "NewForm"
        => /\ \A n \in definedFields :
                  \E m \in Merges(
                               InDocumentOrder(Find(selection,
                                                    {"input", "button"}), n),
                               ClaimedValues(Find(selection, {"select"}), n)) :
                      ValuesOf(fields, n) \in
                          Merges(m, ClaimedValues(Find(selection,
                                                       {"textarea"}), n))
           /\ Dispatched'
                  => \A n \in definedFields :
                         ValuesOf(last'.calls[1].values, n) = ValuesOf(fields, n)

\* C14 as claimed: a select contributes the value of each selected option
\* in document order and nothing when none is selected, a textarea
\* contributes its text as one value also when it is empty, and a field
\* that is never mutated is submitted with these initial values.
C14_SelectsAndTextareas == [][C14_ClaimedStep]_vars

\* The button names the latest Click or Submit may have clicked: the name
\* Click was given, any of the buttons for Submit.
ClickedNames == IF last.op = "Click" THEN {last.name} ELSE DOMAIN buttons

\* C19 as claimed: a defined field with no current value has no entry in the
\* dispatched values and a field whose value is the empty string is
\* dispatched with one empty value, while Field returns ("", true) for
\* both; a control without a value attribute starts with no value.
C19_AbsentAndEmpty ==
    /\ last.op = "NewForm"
           => \A n \in definedFields :
                  InDocumentOrder(selection.children, n) = <<>>
                      => n \notin DOMAIN fields
    /\ Dispatched
           => \A n \in definedFields :
                  LET values == last.calls[1].values
                  IN  /\ (n \notin DOMAIN fields /\ n \notin ClickedNames)
                             => n \notin DOMAIN values
                      /\ ValuesOf(fields, n) = <<"">>
                             => /\ n \in DOMAIN values
                                /\ \E i \in DOMAIN values[n] : values[n][i] = ""
                                /\ n \notin ClickedNames => values[n] = <<"">>
    /\ ( /\ last.op = "Field"
         /\ last.name \in definedFields
         /\ ValuesOf(fields, last.name) \in {<<>>, <<"">>} )
           => last.ret = [value |-> "", found |-> TRUE]

\* C16: a Click or Submit that reaches dispatch makes exactly one call on
\* the session and returns the result of that call, nil or the error, as it
\* is; when the action does not parse as a URL the call returns the parse
\* error and makes no call on the session.
C16_OneCallResultReturned ==
    (last.op \in {"Click", "Submit"} /\ last.err # "InvalidFormValue")
        => IF ParseUrl(sendAction).ok
           THEN /\ Len(last.calls) = 1
                /\ last.err = last.calls[1].result
                /\ last.err \in Results
           ELSE /\ last.calls = <<>>
                /\ last.err = "ParseError"

\* C16 witness: a Click reached the session, whose operation failed, and
\* the Click returned that error.
C16_Witness ==
    /\ last.op = "Click"
    /\ Len(last.calls) = 1
    /\ last.calls[1].result = "TransportError"
    /\ last.err = "TransportError"

\* C18, one step: a Click or Submit, whatever it returns, leaves the
\* fields, the defined fields and the buttons as they were, and the values
\* it dispatches are the fields of that moment, the clicked button's own
\* name apart.
C18_Step ==
    last'.op \in {"Click", "Submit"}
        => /\ fields' = fields
           /\ definedFields' = definedFields
           /\ buttons' = buttons
           /\ Dispatched'
                  => LET values == last'.calls[1].values
                     IN  /\ DOMAIN values \subseteq DOMAIN fields \cup ClickedNames'
                         /\ \A n \in DOMAIN fields \ ClickedNames' :
                                /\ n \in DOMAIN values
                                /\ values[n] = fields[n]

============================================================================
